---- MODULE Spec2Model ----
(***************************************************************************)
(* Model of the streaming WAV encoder of src/encoder.go.                   *)
(*                                                                         *)
(* The encoder's fields are the variables of the same names.  The sink is  *)
(* a WriterAtSeeker with the semantics of a random-access file: a byte     *)
(* sequence and a cursor; Write puts bytes at the cursor and advances it,  *)
(* WriteAt puts bytes at an absolute offset and leaves the cursor alone,   *)
(* a write past the end fills the gap with zero bytes.  The sink is not    *)
(* nil and is no *os.File, so Close ends without a Sync.                   *)
(*                                                                         *)
(* Spec: one caller makes any sequence of calls.  Each call is one action  *)
(* that runs the whole method on a record m holding the encoder, the sink  *)
(* and the call's result.  Any sink call may fail, up to MaxFails times in *)
(* a behaviour: a failing Write or WriteAt reports an error and accepts    *)
(* fewer bytes than asked, a failing Seek leaves the cursor where it was.  *)
(*                                                                         *)
(* SpecOne: one caller writes one buffer, drawn from a larger set of        *)
(* buffers, to a fresh encoder and closes it; the sink does not fail.      *)
(*                                                                         *)
(* SpecConc: several threads call Write or WriteAt on one fresh encoder,   *)
(* interleaved at every operation on e.mu and on the sink.                 *)
(***************************************************************************)
EXTENDS Integers, Sequences, FiniteSets, TLC

\* ------------------------------------------------------------------ bounds
\* calls made on one encoder in a behaviour
MaxOps == 3
\* sink failures injected in a behaviour
MaxFails == 1
\* bytes a failing sink write may still accept (a short write)
MaxShort == 1
\* frames in one audio.IntBuffer
MaxFrames == 1

\* ------------------------------------------------------------ input sets
BitDepths == {8, 16, 24, 32}
Chans == {1, 2}
SampleRates == {44100}
AudioFormats == {1}
Samples == {-2}
Positions == {0, 4}

\* ------------------------------------------------------------- arithmetic
Min(a, b) == IF a < b THEN a ELSE b
Max(a, b) == IF a > b THEN a ELSE b

RECURSIVE Pow(_, _)
Pow(b, n) == IF n = 0 THEN 1 ELSE b * Pow(b, n - 1)

\* A Go integer is a mathematical integer here; every value of the model
\* lies within the signed 32-bit range.  Converting to a w-byte integer type
\* keeps the low w bytes of the two's-complement pattern: byte i is
\* floor(v / 256^(i-1)) mod 256, also for negative v.
LEBytes(v, w) == [i \in 1..w |-> (v \div Pow(256, i - 1)) % 256]
BEBytes(v, w) == [i \in 1..w |-> (v \div Pow(256, w - i)) % 256]

\* ------------------------------------------------- values given to AddLE
\* A value is what encoding/binary sees of it: binary.Size and the bytes
\* binary.Write produces in each byte order.  Size is -1 and Write fails for
\* a value that is not of fixed size (a plain Go int).
FixedValue(v, w) == [size |-> w, le |-> LEBytes(v, w), be |-> BEBytes(v, w)]
U8(v) == FixedValue(v, 1)
U16(v) == FixedValue(v, 2)
U32(v) == FixedValue(v, 4)
ByteArray(bs) == [size |-> Len(bs), le |-> bs, be |-> bs]
PlainInt == [size |-> -1, le |-> <<>>, be |-> <<>>]

\* chunk identifiers ([4]byte of ASCII)
RiffID == <<82, 73, 70, 70>>
WavFormatID == <<87, 65, 86, 69>>
FmtID == <<102, 109, 116, 32>>
DataFormatID == <<100, 97, 116, 97>>
CIDList == <<76, 73, 83, 84>>

\* ------------------------------------------------------------------ state
VARIABLES
    SampleRate, BitDepth, NumChans, WavAudioFormat, Metadata,
    WrittenBytes, frames, pcmChunkStarted, pcmChunkSizePos, pcmChunkPos,
    wroteHeader,
    sink,       \* the bytes of the sink
    cursor,     \* the sink's current write position
    sent,       \* history: every Write, WriteAt and Seek asked of the sink
    hist,       \* history: every call made and whether it returned an error
    last,       \* history: the encoder and sink as the last call found them
    fails,      \* sink failures injected so far
    mu,         \* e.mu: the thread holding the lock, 0 when free
    jobs,       \* concurrent callers: the call each thread makes
    pc,         \* concurrent callers: where each thread stands in its call
    ret         \* concurrent callers: what each thread's call returned

vars == <<SampleRate, BitDepth, NumChans, WavAudioFormat, Metadata,
          WrittenBytes, frames, pcmChunkStarted, pcmChunkSizePos, pcmChunkPos,
          wroteHeader, sink, cursor, sent, hist, last, fails,
          mu, jobs, pc, ret>>

config == <<SampleRate, BitDepth, NumChans, WavAudioFormat, Metadata>>
threads == <<mu, jobs, pc, ret>>

\* ------------------------------------------------------------------- sink
\* bs written at the 0-based offset at of the byte sequence d
Overlay(d, at, bs) ==
    IF bs = <<>> THEN d
    ELSE IF at = Len(d) THEN d \o bs
    ELSE [i \in 1..Max(Len(d), at + Len(bs)) |->
            IF i > at /\ i <= at + Len(bs) THEN bs[i - at]
            ELSE IF i <= Len(d) THEN d[i] ELSE 0]

\* m.fail counts down the sink calls of the running call; the call on which
\* it stands at 1 fails.
Failing(m) == m.fail = 1
Tick(m) == IF m.fail > 0 THEN m.fail - 1 ELSE 0

\* Bytes of bs the sink accepts.  A failing write of sample bytes may be
\* short (some bytes accepted); a failing write of a header field accepts
\* nothing.
Accepted(m, bs, kind) ==
    IF ~Failing(m) THEN Len(bs)
    ELSE IF kind = "pcm" THEN Max(0, Min(m.acc, Len(bs) - 1))
    ELSE 0

Sent(m, kind, at, bs, n) ==
    Append(m.sent, [kind |-> kind, at |-> at, n |-> n, ok |-> ~Failing(m)])

\* e.w.Write(bs)
sinkWrite(m, bs, kind) ==
    LET n == Accepted(m, bs, kind) IN
    [m EXCEPT !.sink = Overlay(@, m.cursor, SubSeq(bs, 1, n)),
              !.cursor = @ + n,
              !.sent = Sent(m, kind, m.cursor, bs, n),
              !.n = n,
              !.err = IF Failing(m) THEN "sink write failed" ELSE "",
              !.tripped = @ \/ Failing(m),
              !.fail = Tick(m)]

\* e.w.WriteAt(bs, off)
sinkWriteAt(m, bs, off, kind) ==
    LET n == Accepted(m, bs, kind) IN
    [m EXCEPT !.sink = Overlay(@, off, SubSeq(bs, 1, n)),
              !.sent = Sent(m, kind, off, bs, n),
              !.n = n,
              !.err = IF Failing(m) THEN "sink write failed" ELSE "",
              !.tripped = @ \/ Failing(m),
              !.fail = Tick(m)]

\* e.w.Seek(off, whence): whence 0 is from the start, 2 from the end
sinkSeek(m, off, whence) ==
    [m EXCEPT !.cursor = IF Failing(m) THEN @
                         ELSE IF whence = 2 THEN Len(m.sink) + off ELSE off,
              !.sent = Append(@, [kind |-> "seek", at |-> off, n |-> 0,
                                  ok |-> ~Failing(m)]),
              !.err = IF Failing(m) THEN "sink seek failed" ELSE "",
              !.tripped = @ \/ Failing(m),
              !.fail = Tick(m)]

\* ---------------------------------------------------------------- buffers
\* An audio.IntBuffer is nil or has a channel count (Format.NumChannels) and
\* a flat interleaved sample sequence (Data).
NilBuffer == [isNil |-> TRUE, nch |-> 0, data |-> <<>>]

DataSeqs(n) == [1..n -> Samples]

\* the buffers handed to Write and WriteAt: nil, or whole frames of any
\* channel count
Buffers ==
    {NilBuffer} \cup
    UNION {{[isNil |-> FALSE, nch |-> c, data |-> d] : d \in DataSeqs(f * c)} :
           c \in Chans, f \in 1..MaxFrames}

\* buf.NumFrames()
NumFrames(buf) ==
    IF buf.isNil THEN 0
    ELSE Len(buf.data) \div (IF buf.nch = 0 THEN 1 ELSE buf.nch)

\* audio.Int32toInt24LEBytes(n): n >> 0, n >> 8, n >> 16, each cut to a byte
Int32toInt24LEBytes(n) ==
    <<n % 256, (n \div 256) % 256, (n \div 65536) % 256>>

\* the switch with binary.BigEndian in place of binary.LittleEndian
EncodeSample_BigEndian(v, depth) ==
    CASE depth = 8 -> U8(v).be
      [] depth = 16 -> U16(v).be
      [] depth = 24 -> Int32toInt24LEBytes(v)
      [] depth = 32 -> U32(v).be
      [] OTHER -> <<>>

\* the switch on e.BitDepth inside addBuffer's loop: the bytes one sample
\* adds to the scratch buffer, <<>> for a bit depth the switch does not know
EncodeSample(v, depth) ==
    CASE depth = 8 -> U8(v).le
      [] depth = 16 -> U16(v).le
      [] depth = 24 -> Int32toInt24LEBytes(v)
      [] depth = 32 -> U32(v).le
      [] OTHER -> <<>>

RECURSIVE EncodeFrom(_, _, _, _)
EncodeFrom(data, k, count, depth) ==
    IF k > count THEN <<>>
    ELSE EncodeSample(data[k], depth) \o EncodeFrom(data, k + 1, count, depth)

\* addBuffer's encoding loop over frames and channels
Encode(buf, depth) ==
    LET frameCount == NumFrames(buf)
        count == frameCount * buf.nch
    IN IF count > 0 /\ depth \notin {8, 16, 24, 32}
       THEN [err |-> "can't add frames of this bit size", bytes |-> <<>>,
             bufferFrames |-> 0]
       ELSE [err |-> "", bytes |-> EncodeFrom(buf.data, 1, count, depth),
             bufferFrames |-> frameCount]

\* ---------------------------------------------------------------- encoder
AddLE(m, src, kind) ==
    LET m1 == [m EXCEPT !.WrittenBytes = @ + src.size] IN
    IF src.size < 0
    THEN [m1 EXCEPT !.err = "binary.Write: invalid type"]
    ELSE sinkWrite(m1, src.le, kind)

AddBE(m, src, kind) ==
    LET m1 == [m EXCEPT !.WrittenBytes = @ + src.size] IN
    IF src.size < 0
    THEN [m1 EXCEPT !.err = "binary.Write: invalid type"]
    ELSE sinkWrite(m1, src.be, kind)

\* the eleven values writeHeader adds, in order
HeaderFields ==
    LET blockAlign == (NumChans * BitDepth) \div 8 IN
    << ByteArray(RiffID), U32(42), ByteArray(WavFormatID), ByteArray(FmtID),
       U32(16), U16(WavAudioFormat), U16(NumChans), U32(SampleRate),
       U32(SampleRate * blockAlign), U16(blockAlign), U16(BitDepth) >>

HeaderLen == Len(HeaderFields)

RECURSIVE AddFields(_, _, _)
AddFields(m, fields, i) ==
    IF i > Len(fields) THEN m
    ELSE LET m1 == AddLE(m, fields[i], "hdr") IN
         IF m1.err # "" THEN m1 ELSE AddFields(m1, fields, i + 1)

\* writeHeader without its first test: a second call emits the fields again
writeHeader_Again(m) ==
    LET m1 == [m EXCEPT !.wroteHeader = TRUE, !.err = ""] IN
    AddFields(m1, HeaderFields, 1)

writeHeader(m) ==
    IF m.wroteHeader THEN [m EXCEPT !.err = "already wrote header"]
    ELSE LET m1 == [m EXCEPT !.wroteHeader = TRUE, !.err = ""] IN
         IF m1.WrittenBytes > 0 THEN m1
         ELSE AddFields(m1, HeaderFields, 1)

\* writeSetup without its test of pcmChunkStarted: every call opens the chunk
writeSetup_Reopens(m) ==
    LET m1 == IF ~m.wroteHeader THEN writeHeader(m) ELSE [m EXCEPT !.err = ""]
    IN
    IF m1.err # "" THEN m1
    ELSE LET m2 == AddLE(m1, ByteArray(DataFormatID), "data") IN
         IF m2.err # "" THEN m2
         ELSE LET m3 == [m2 EXCEPT !.pcmChunkStarted = TRUE,
                                   !.pcmChunkSizePos = m2.WrittenBytes]
                  m4 == AddLE(m3, U32(42), "placeholder")
              IN IF m4.err # "" THEN m4
                 ELSE [m4 EXCEPT !.pcmChunkPos = m4.WrittenBytes]

writeSetup(m) ==
    LET m1 == IF ~m.wroteHeader THEN writeHeader(m) ELSE [m EXCEPT !.err = ""]
    IN
    IF m1.err # "" THEN m1
    ELSE IF m1.pcmChunkStarted THEN m1
    ELSE LET m2 == AddLE(m1, ByteArray(DataFormatID), "data") IN
         IF m2.err # "" THEN m2
         ELSE LET m3 == [m2 EXCEPT !.pcmChunkStarted = TRUE,
                                   !.pcmChunkSizePos = m2.WrittenBytes]
                  m4 == AddLE(m3, U32(42), "placeholder")
              IN IF m4.err # "" THEN m4
                 ELSE [m4 EXCEPT !.pcmChunkPos = m4.WrittenBytes]

\* the sink offset of a positioned write
writeAtOffset(m, pos) == m.pcmChunkPos + pos

\* addBuffer handing the encoded bytes to the sink, outside the lock;
\* pos is <<>> for a nil *int64 and <<p>> for a pointer to p
transfer(m, bytes, pos) ==
    IF pos = <<>>
    THEN sinkWrite(m, bytes, "pcm")
    ELSE sinkWriteAt(m, bytes, writeAtOffset(m, pos[1]), "pcm")

\* addBuffer without its addition to WrittenBytes
counted_FramesOnly(m, bufferFrames, n) ==
    [m EXCEPT !.frames = @ + bufferFrames,
              !.n = n,
              !.err = ""]

\* addBuffer updating the counters under the lock and returning n, nil
counted(m, bufferFrames, n) ==
    [m EXCEPT !.frames = @ + bufferFrames,
              !.WrittenBytes = @ + n,
              !.n = n,
              !.err = ""]

addBuffer(m, buf, pos) ==
    IF buf.isNil THEN [m EXCEPT !.n = 0, !.err = "can't add a nil buffer"]
    ELSE LET enc == Encode(buf, BitDepth) IN
         IF enc.err # "" THEN [m EXCEPT !.n = 0, !.err = enc.err]
         ELSE LET m1 == transfer(m, enc.bytes, pos)
              IN counted(m1, enc.bufferFrames, m1.n)

Write(m, buf) ==
    LET m1 == writeSetup(m) IN
    IF m1.err # "" THEN m1 ELSE addBuffer(m1, buf, <<>>)

WriteAt(m, buf, pos) ==
    LET m1 == writeSetup(m) IN
    IF m1.err # "" THEN [m1 EXCEPT !.n = 0] ELSE addBuffer(m1, buf, <<pos>>)

WriteFrame(m, value) ==
    LET m1 == IF ~m.wroteHeader
              THEN [writeHeader(m) EXCEPT !.err = ""]
              ELSE m
        m2 == AddLE(m1, ByteArray(DataFormatID), "data")
        m3 == [m2 EXCEPT !.pcmChunkStarted = TRUE,
                         !.pcmChunkSizePos = m2.WrittenBytes]
        m4 == AddLE(m3, U32(42), "placeholder")
        m5 == IF m1.pcmChunkStarted THEN m1 ELSE m4
    IN IF ~m1.pcmChunkStarted /\ m2.err # "" THEN m2
       ELSE IF ~m1.pcmChunkStarted /\ m4.err # "" THEN m4
       ELSE AddLE([m5 EXCEPT !.frames = @ + 1], value, "pcm")

\* encodeInfoChunk(e): the encoded INFO list payload, an opaque byte blob
encodeInfoChunk == <<73, 78, 70, 79>>

writeMetadata(m) ==
    LET chunkData == encodeInfoChunk
        m1 == AddBE(m, ByteArray(CIDList), "LIST")
        m2 == AddLE(m1, U32(Len(chunkData)), "LIST")
    IN IF m1.err # "" THEN m1
       ELSE IF m2.err # "" THEN m2
       ELSE AddBE(m2, ByteArray(chunkData), "LIST")

\* the RIFF size taken after the patch itself was counted
riffSize_CountsPatch(m) == m.WrittenBytes - 4

\* the value Close patches into the RIFF size field
riffSize(m) == m.WrittenBytes - 8

\* the data-chunk size without the channel count
chunkSize_OneChannel(m) == (BitDepth \div 8) * m.frames

\* the value Close patches into the data-chunk size field
chunkSize(m) == (BitDepth \div 8) * NumChans * m.frames

\* Close on a non-nil encoder with a non-nil sink that is no *os.File
Close(m) ==
    LET m1 == IF Metadata THEN writeMetadata(m) ELSE [m EXCEPT !.err = ""]
        m2 == sinkSeek(m1, 4, 0)
        m3 == AddLE(m2, U32(riffSize(m2)), "riffsize")
        m4 == sinkSeek(m3, m3.pcmChunkSizePos, 0)
        m5 == AddLE(m4, U32(chunkSize(m4)), "datasize")
        m6 == IF m3.pcmChunkSizePos > 0 THEN m5 ELSE m3
    IN IF m1.err # "" THEN m1
       ELSE IF m2.err # "" THEN m2
       ELSE IF m3.err # "" THEN m3
       ELSE IF m3.pcmChunkSizePos > 0 /\ m4.err # "" THEN m4
       ELSE IF m3.pcmChunkSizePos > 0 /\ m5.err # "" THEN m5
       ELSE sinkSeek(m6, 0, 2)

\* ------------------------------------------------------------------ calls
\* values a caller hands to WriteFrame, AddLE and AddBE
FrameValues == {U16(-2), PlainInt}
UserValues == {U16(258), PlainInt}

\* Where an injected failure may strike, given the run m of the call in
\* which nothing fails: at its k-th sink call (0: nowhere).  Of the header's
\* fields the first and the last may fail; every other sink call may.
MiddleField(m, i) ==
    /\ m.sent[i].kind = "hdr"
    /\ Cardinality({j \in 1..(i - 1) : m.sent[j].kind = "hdr"})
          \notin {0, HeaderLen - 1}

FailChoices(m) ==
    IF fails < MaxFails
    THEN {0} \cup {k \in 1..(Len(m.sent) - Len(sent)) :
                      ~MiddleField(m, Len(sent) + k)}
    ELSE {0}
AccChoices(fp) == IF fp = 0 THEN {0} ELSE 0..MaxShort

\* the encoder and the sink as a call finds them
Start(fp, acc) ==
    [WrittenBytes |-> WrittenBytes, frames |-> frames,
     pcmChunkStarted |-> pcmChunkStarted, pcmChunkSizePos |-> pcmChunkSizePos,
     pcmChunkPos |-> pcmChunkPos, wroteHeader |-> wroteHeader,
     sink |-> sink, cursor |-> cursor, sent |-> sent,
     fail |-> fp, acc |-> acc, n |-> 0, err |-> "", tripped |-> FALSE]

NoBuffer == [isNil |-> FALSE, nch |-> 0, data |-> <<>>]

\* calls are made while the bound allows
MoreCalls == Len(hist) < MaxOps

\* the encoder and the sink become what m holds
Store(m) ==
    /\ WrittenBytes' = m.WrittenBytes
    /\ frames' = m.frames
    /\ pcmChunkStarted' = m.pcmChunkStarted
    /\ pcmChunkSizePos' = m.pcmChunkSizePos
    /\ pcmChunkPos' = m.pcmChunkPos
    /\ wroteHeader' = m.wroteHeader
    /\ sink' = m.sink
    /\ cursor' = m.cursor
    /\ sent' = m.sent

\* the call op, given buf, ran to m
Return(op, buf, m) ==
    \* a short write is chosen only where the failing write can be short
    /\ m.acc = 0 \/ (m.sent # sent /\ ~m.sent[Len(m.sent)].ok
                     /\ m.sent[Len(m.sent)].n = m.acc)
    /\ Store(m)
    /\ hist' = Append(hist, [op |-> op, err |-> m.err, n |-> m.n,
                             nilBuf |-> buf.isNil, nch |-> buf.nch,
                             numFrames |-> NumFrames(buf)])
    /\ last' = [WrittenBytes |-> WrittenBytes, frames |-> frames,
                wroteHeader |-> wroteHeader,
                pcmChunkStarted |-> pcmChunkStarted,
                pcmChunkSizePos |-> pcmChunkSizePos,
                sink |-> sink, cursor |-> cursor, sentLen |-> Len(sent)]
    /\ fails' = fails + (IF m.tripped THEN 1 ELSE 0)
    /\ UNCHANGED <<config, threads>>

CallWrite ==
    /\ MoreCalls
    /\ \E buf \in Buffers :
       \E fp \in FailChoices(Write(Start(0, 0), buf)) :
       \E acc \in AccChoices(fp) :
       \E m \in {Write(Start(fp, acc), buf)} :
           Return("Write", buf, m)

CallWriteAt ==
    /\ MoreCalls
    /\ \E buf \in Buffers, pos \in Positions :
       \E fp \in FailChoices(WriteAt(Start(0, 0), buf, pos)) :
       \E acc \in AccChoices(fp) :
       \E m \in {WriteAt(Start(fp, acc), buf, pos)} :
           Return("WriteAt", buf, m)

CallWriteFrame ==
    /\ MoreCalls
    /\ \E value \in FrameValues :
       \E fp \in FailChoices(WriteFrame(Start(0, 0), value)) :
       \E acc \in AccChoices(fp) :
       \E m \in {WriteFrame(Start(fp, acc), value)} :
           Return("WriteFrame", NoBuffer, m)

CallAddLE ==
    /\ MoreCalls
    /\ \E src \in UserValues :
       \E fp \in FailChoices(AddLE(Start(0, 0), src, "user")) :
       \E acc \in AccChoices(fp) :
       \E m \in {AddLE(Start(fp, acc), src, "user")} :
           Return("AddLE", NoBuffer, m)

CallAddBE ==
    /\ MoreCalls
    /\ \E src \in UserValues :
       \E fp \in FailChoices(AddBE(Start(0, 0), src, "user")) :
       \E acc \in AccChoices(fp) :
       \E m \in {AddBE(Start(fp, acc), src, "user")} :
           Return("AddBE", NoBuffer, m)

CallWriteHeader ==
    /\ MoreCalls
    /\ \E fp \in FailChoices(writeHeader(Start(0, 0))) :
       \E acc \in AccChoices(fp) :
       \E m \in {writeHeader(Start(fp, acc))} :
           Return("writeHeader", NoBuffer, m)

CallClose ==
    /\ MoreCalls
    /\ \E fp \in FailChoices(Close(Start(0, 0))) :
       \E acc \in AccChoices(fp) :
       \E m \in {Close(Start(fp, acc))} :
           Return("Close", NoBuffer, m)

\* NewEncoder: nothing written, nothing recorded
NewEncoder ==
    /\ SampleRate \in SampleRates
    /\ BitDepth \in BitDepths
    /\ NumChans \in Chans
    /\ WavAudioFormat \in AudioFormats
    /\ WrittenBytes = 0
    /\ frames = 0
    /\ pcmChunkStarted = FALSE
    /\ pcmChunkSizePos = 0
    /\ pcmChunkPos = 0
    /\ wroteHeader = FALSE
    /\ sink = <<>>
    /\ cursor = 0
    /\ sent = <<>>
    /\ hist = <<>>
    /\ last = [WrittenBytes |-> 0, frames |-> 0, wroteHeader |-> FALSE,
               pcmChunkStarted |-> FALSE, pcmChunkSizePos |-> 0,
               sink |-> <<>>, cursor |-> 0, sentLen |-> 0]
    /\ fails = 0

\* one caller, any sequence of calls
Init ==
    /\ NewEncoder
    /\ Metadata \in BOOLEAN
    /\ mu = 0
    /\ jobs = <<>>
    /\ pc = <<>>
    /\ ret = <<>>

Next ==
    \/ CallWrite
    \/ CallWriteAt
    \/ CallWriteFrame
    \/ CallAddLE
    \/ CallAddBE
    \/ CallWriteHeader
    \/ CallClose

Spec == Init /\ [][Next]_vars

\* ------------------------------------------------- one buffer, then Close
\* One caller writes one buffer to a fresh encoder and closes it; the sink
\* does not fail.  The buffer is drawn at the start and kept in jobs[1].
\* frames in the buffer
MaxOneFrames == 2

\* samples inside and outside the range of each bit depth
OneSamples == {1, -129, 40000, -8388609}

\* four mono frames
ExampleBuffer ==
    [isNil |-> FALSE, nch |-> 1, data |-> <<100, -100, 32767, -32768>>]

OneBuffers ==
    {ExampleBuffer} \cup
    UNION {{[isNil |-> FALSE, nch |-> c, data |-> d] : d \in [1..(f * c) -> OneSamples]} :
           c \in Chans, f \in 1..MaxOneFrames}

InitOne ==
    /\ NewEncoder
    /\ Metadata = FALSE
    /\ mu = 0
    /\ \E buf \in OneBuffers : jobs = <<[op |-> "Write", buf |-> buf, pos |-> <<>>]>>
    /\ pc = <<>>
    /\ ret = <<>>

OneWrite ==
    /\ hist = <<>>
    /\ \E m \in {Write(Start(0, 0), jobs[1].buf)} :
          Return("Write", jobs[1].buf, m)

OneClose ==
    /\ Len(hist) = 1
    /\ \E m \in {Close(Start(0, 0))} :
          Return("Close", NoBuffer, m)

NextOne ==
    \/ OneWrite
    \/ OneClose

SpecOne == InitOne /\ [][NextOne]_vars

\* ------------------------------------------------------ concurrent callers
\* Threads call Write or WriteAt on one fresh encoder, one call each.  A
\* thread's steps are the stretches of its call between two operations on
\* e.mu or on the sink.  The sink does not fail here.
NThreads == 2
Threads == 1..NThreads

\* bytes of one frame of the encoder's format
FrameBytes == (NumChans * BitDepth) \div 8

\* thread t writes one frame whose samples are all t
FrameOf(t) == [isNil |-> FALSE, nch |-> NumChans, data |-> [k \in 1..NumChans |-> t]]

\* each thread has a frame slot of its own, so that no two target ranges meet
Slots == {f \in [Threads -> 0..NThreads] : \A a, b \in Threads : a # b => f[a] # f[b]}

\* e.mu.Lock() returns once no thread holds the lock
lockFree_NoMutex == TRUE

lockFree == mu = 0

InitConc ==
    /\ NewEncoder
    /\ Metadata = FALSE
    /\ mu = 0
    /\ \E slot \in Slots, op \in [Threads -> {"Write", "WriteAt"}] :
          jobs = [t \in Threads |->
                    [op |-> op[t], buf |-> FrameOf(t),
                     pos |-> IF op[t] = "Write" THEN <<>>
                             ELSE <<slot[t] * FrameBytes>>]]
    /\ pc = [t \in Threads |-> "start"]
    /\ ret = [t \in Threads |-> [err |-> "", n |-> 0, bufferFrames |-> 0]]

Goto(t, label) == pc' = [pc EXCEPT ![t] = label]

\* writeSetup: e.mu.Lock()
Lock(t) ==
    /\ pc[t] = "start"
    /\ lockFree
    /\ mu' = t
    /\ Goto(t, "locked")
    /\ UNCHANGED <<config, WrittenBytes, frames, pcmChunkStarted,
                   pcmChunkSizePos, pcmChunkPos, wroteHeader, sink, cursor,
                   sent, hist, last, fails, jobs, ret>>

\* writeSetup: if !e.wroteHeader
TestHeader(t) ==
    /\ pc[t] = "locked"
    /\ Goto(t, IF ~wroteHeader THEN "header" ELSE "chunk")
    /\ UNCHANGED <<config, WrittenBytes, frames, pcmChunkStarted,
                   pcmChunkSizePos, pcmChunkPos, wroteHeader, sink, cursor,
                   sent, hist, last, fails, mu, jobs, ret>>

\* writeSetup: e.writeHeader(), and on its error unlock and return it
Header(t) ==
    /\ pc[t] = "header"
    /\ \E m \in {writeHeader(Start(0, 0))} :
          /\ Store(m)
          /\ IF m.err # ""
             THEN /\ mu' = 0
                  /\ ret' = [ret EXCEPT ![t].err = m.err]
                  /\ Goto(t, "done")
             ELSE /\ UNCHANGED <<mu, ret>>
                  /\ Goto(t, "chunk")
    /\ UNCHANGED <<config, hist, last, fails, jobs>>

\* writeSetup: open the data chunk if it is not open, unlock, return
Chunk(t) ==
    /\ pc[t] = "chunk"
    /\ \E m \in {writeSetup([Start(0, 0) EXCEPT !.wroteHeader = TRUE])} :
          /\ Store(m)
          /\ mu' = 0
          /\ ret' = [ret EXCEPT ![t].err = m.err]
          /\ Goto(t, IF m.err # "" THEN "done" ELSE "add")
    /\ UNCHANGED <<config, hist, last, fails, jobs>>

\* addBuffer up to the sink write: encode, then Write or WriteAt
Add(t) ==
    /\ pc[t] = "add"
    /\ LET buf == jobs[t].buf
           enc == Encode(buf, BitDepth)
       IN IF buf.isNil \/ enc.err # ""
          THEN /\ ret' = [ret EXCEPT ![t].err = "can't add"]
               /\ Goto(t, "done")
               /\ UNCHANGED <<WrittenBytes, frames, pcmChunkStarted,
                              pcmChunkSizePos, pcmChunkPos, wroteHeader, sink,
                              cursor, sent>>
          ELSE \E m \in {transfer(Start(0, 0), enc.bytes, jobs[t].pos)} :
                  /\ Store(m)
                  /\ ret' = [ret EXCEPT ![t].n = m.n,
                                        ![t].bufferFrames = enc.bufferFrames]
                  /\ Goto(t, "count")
    /\ UNCHANGED <<config, hist, last, fails, mu, jobs>>

\* addBuffer: lock, add to the counters, unlock, return n, nil
Count(t) ==
    /\ pc[t] = "count"
    /\ lockFree
    /\ \E m \in {counted(Start(0, 0), ret[t].bufferFrames, ret[t].n)} :
          Store(m)
    /\ Goto(t, "done")
    /\ UNCHANGED <<config, hist, last, fails, mu, jobs, ret>>

NextConc ==
    \/ \E t \in Threads : Lock(t)
    \/ \E t \in Threads : TestHeader(t)
    \/ \E t \in Threads : Header(t)
    \/ \E t \in Threads : Chunk(t)
    \/ \E t \in Threads : Add(t)
    \/ \E t \in Threads : Count(t)

SpecConc == InitConc /\ [][NextConc]_vars

\* ------------------------------------------------- reading the histories
Called == hist # <<>>
LastCall == hist[Len(hist)]

\* every call made so far is one of ops
OnlyCalls(ops) == \A i \in 1..Len(hist) : hist[i].op \in ops

\* at least one call of ops, each returning no error, then one Close that
\* returned no error
WritesThenClose(ops) ==
    /\ Len(hist) >= 2
    /\ LastCall.op = "Close" /\ LastCall.err = ""
    /\ \A i \in 1..(Len(hist) - 1) : hist[i].op \in ops /\ hist[i].err = ""

\* the sink writes of the last call
NewSent == (last.sentLen + 1)..Len(sent)

\* sink writes of the given kinds that put at least one byte into the sink
Reached(kinds) == {i \in 1..Len(sent) : sent[i].kind \in kinds /\ sent[i].n > 0}

\* the header fields the sink accepted whole before its i-th write
HeaderBefore(i) ==
    Cardinality({j \in 1..(i - 1) : sent[j].kind = "hdr" /\ sent[j].ok})

RECURSIVE FramesIn(_, _)
FramesIn(h, k) == IF k = 0 THEN 0 ELSE h[k].numFrames + FramesIn(h, k - 1)

\* frames in the buffers given to all calls but the last
FramesCarried == FramesIn(hist, Len(hist) - 1)

RECURSIVE BytesIn(_, _, _)
BytesIn(s, k, kinds) ==
    IF k = 0 THEN 0
    ELSE (IF s[k].kind \in kinds THEN s[k].n ELSE 0) + BytesIn(s, k - 1, kinds)

\* bytes the sink accepted from the encoder, the two size patches aside
BytesWritten ==
    BytesIn(sent, Len(sent), {"hdr", "data", "placeholder", "pcm", "LIST", "user"})

\* every header, chunk and size field the encoder wrote went through
CleanFields == \A i \in 1..Len(sent) : sent[i].kind # "pcm" => sent[i].ok

Field(at) == SubSeq(sink, at + 1, at + 4)

\* ----------------------------------------------------------------- claims

\* C1: over any sequence of Write, WriteAt, WriteFrame, AddLE and Close calls
\* the complete header is emitted exactly once: its fields never reach the
\* sink a second time, and all of them have been accepted before any byte of
\* a 'data' tag, of a sample or of the LIST chunk reaches the sink.
C1_HeaderOnceBeforeData ==
    OnlyCalls({"Write", "WriteAt", "WriteFrame", "AddLE", "Close"}) =>
        /\ Cardinality(Reached({"hdr"})) <= HeaderLen
        /\ \A i \in Reached({"data", "pcm", "LIST"}) : HeaderBefore(i) = HeaderLen

\* C2: after successful Write/WriteAt calls that carried F frames and one
\* successful Close, the four bytes at the recorded placeholder offset, which
\* is where the placeholder was written, hold F * NumChans * BitDepth / 8.
C2_DataChunkSize ==
    WritesThenClose({"Write", "WriteAt"}) =>
        /\ \E i \in 1..Len(sent) :
              sent[i].kind = "placeholder" /\ sent[i].at = pcmChunkSizePos
        /\ Field(pcmChunkSizePos)
              = LEBytes((FramesCarried * NumChans * BitDepth) \div 8, 4)

C2_Witness ==
    /\ WritesThenClose({"Write", "WriteAt"})
    /\ FramesCarried = 2 /\ NumChans = 2 /\ BitDepth = 24
    /\ \E i \in 1..Len(hist) : hist[i].op = "WriteAt"

\* C3: after successful writes (no call returned an error and no header or
\* chunk field failed to reach the sink) and one successful Close, the four
\* bytes at sink offset 4 hold the number of bytes the sink accepted from the
\* encoder, the two size patches not counted, minus 8.
C3_RiffSize ==
    (WritesThenClose({"Write", "WriteAt", "WriteFrame"}) /\ CleanFields) =>
        Field(4) = LEBytes(BytesWritten - 8, 4)

C3_Witness ==
    /\ WritesThenClose({"Write", "WriteAt", "WriteFrame"}) /\ CleanFields
    /\ Metadata
    /\ Reached({"pcm"}) # {} /\ Reached({"LIST"}) # {}
    /\ \E i \in 1..Len(sent) : sent[i].kind = "pcm" /\ ~sent[i].ok

\* C4: with Metadata attached and a sink that never fails, after Write and
\* WriteAt calls followed by Close every LIST byte lies past the last sample
\* byte in the sink.
C4_MetadataAfterSamples ==
    (/\ Metadata /\ fails = 0 /\ Called
     /\ LastCall.op = "Close"
     /\ \A i \in 1..(Len(hist) - 1) : hist[i].op \in {"Write", "WriteAt"}) =>
        \A i \in Reached({"LIST"}), j \in Reached({"pcm"}) :
            sent[i].at >= sent[j].at + sent[j].n

\* C5: a Write or WriteAt given a nil buffer returns an error and leaves the
\* frame counter and WrittenBytes as the call found them.
C5_NilBufferNoEffect ==
    (Called /\ LastCall.op \in {"Write", "WriteAt"} /\ LastCall.nilBuf) =>
        /\ LastCall.err # ""
        /\ frames = last.frames
        /\ WrittenBytes = last.WrittenBytes

\* C6: a Write or WriteAt of a non-nil buffer during which the sink's write
\* of the encoded samples failed returns an error.
C6_SinkErrorReturned ==
    (/\ Called /\ LastCall.op \in {"Write", "WriteAt"} /\ ~LastCall.nilBuf
     /\ \E i \in NewSent : sent[i].kind = "pcm" /\ ~sent[i].ok) =>
        LastCall.err # ""

\* C7: with a sink that never fails and no Metadata attached, Close on an
\* encoder on which no Write, WriteAt, WriteFrame or header emission ever
\* happened and whose sink is empty returns no error and leaves the sink
\* empty.
C7_CloseFreshNoop ==
    (/\ fails = 0 /\ ~Metadata /\ Called /\ LastCall.op = "Close"
     /\ last.sink = <<>>
     /\ \A i \in 1..(Len(hist) - 1) :
           hist[i].op \notin {"Write", "WriteAt", "WriteFrame", "writeHeader"}) =>
        LastCall.err = "" /\ sink = <<>>

\* C8: with a sink that never fails, a Close after a Close that returned no
\* error returns an error and writes nothing, so each size field is patched
\* at most once and the LIST chunk (three sink writes) is emitted at most once.
C8_CloseOnce ==
    fails = 0 =>
        /\ (/\ Called /\ LastCall.op = "Close"
            /\ \E i \in 1..(Len(hist) - 1) :
                  hist[i].op = "Close" /\ hist[i].err = "") =>
               (LastCall.err # "" /\ NewSent = {} /\ sink = last.sink)
        /\ Cardinality({i \in 1..Len(sent) : sent[i].kind = "riffsize"}) <= 1
        /\ Cardinality({i \in 1..Len(sent) : sent[i].kind = "datasize"}) <= 1
        /\ Cardinality({i \in 1..Len(sent) : sent[i].kind = "LIST"}) <= 3

\* C10: a call of writeHeader on an encoder whose header was already emitted
\* returns 'already wrote header', asks nothing of the sink and leaves the
\* sink and WrittenBytes as it found them.
C10_SecondHeaderRefused ==
    (Called /\ LastCall.op = "writeHeader" /\ last.wroteHeader) =>
        /\ LastCall.err = "already wrote header"
        /\ NewSent = {}
        /\ sink = last.sink
        /\ WrittenBytes = last.WrittenBytes

C10_Witness ==
    /\ Called /\ LastCall.op = "writeHeader" /\ last.wroteHeader
    /\ HeaderBefore(last.sentLen + 1) = HeaderLen
    /\ Len(last.sink) >= 36

\* the encoder and an empty sink as NewEncoder leaves them
Fresh ==
    [WrittenBytes |-> 0, frames |-> 0, pcmChunkStarted |-> FALSE,
     pcmChunkSizePos |-> 0, pcmChunkPos |-> 0, wroteHeader |-> FALSE,
     sink |-> <<>>, cursor |-> 0, sent |-> <<>>,
     fail |-> 0, acc |-> 0, n |-> 0, err |-> "", tripped |-> FALSE]

\* the threads' WriteAt calls made one after another in the given order
RECURSIVE OneByOne(_, _, _)
OneByOne(m, order, i) ==
    IF i > Len(order) THEN m
    ELSE OneByOne(WriteAt(m, jobs[order[i]].buf, jobs[order[i]].pos[1]),
                  order, i + 1)

Orders == {o \in [Threads -> Threads] : \A a, b \in Threads : a # b => o[a] # o[b]}

AllDone == \A t \in Threads : pc[t] = "done"
AllWriteAt == \A t \in Threads : jobs[t].op = "WriteAt"

\* C9: when concurrent WriteAt calls on disjoint ranges have all returned,
\* the sink holds what it holds after the same calls made one after another,
\* in whichever order.
C9_DisjointWriteAt ==
    (AllDone /\ AllWriteAt) =>
        \A o \in Orders : sink = OneByOne(Fresh, o, 1).sink

\* both calls ran their sample writes in the order opposite to their offsets
C9_Witness ==
    /\ AllDone /\ AllWriteAt
    /\ \E i, j \in Reached({"pcm"}) : i < j /\ sent[i].at > sent[j].at
    /\ Len(sink) > 44 + FrameBytes

\* bytes the sink accepted of the sample writes of the last call
NewSampleBytes ==
    BytesIn(sent, Len(sent), {"pcm"}) - BytesIn(sent, last.sentLen, {"pcm"})

\* the sink writes that put a size placeholder into the sink
Placeholders == Reached({"placeholder"})

\* C11: no call of Write, WriteAt, WriteFrame, AddLE, AddBE or Close, whatever
\* its argument, leaves the frame counter or WrittenBytes smaller than the
\* call found it.
C11_CountersNeverDecrease ==
    (Called /\ LastCall.op \in {"Write", "WriteAt", "WriteFrame", "AddLE",
                                "AddBE", "Close"}) =>
        /\ frames >= last.frames
        /\ WrittenBytes >= last.WrittenBytes

\* C14: a Write or WriteAt of a non-nil buffer advances the frame counter by
\* the number of whole frames of the buffer whose bytes the sink accepted, and
\* by nothing when the sink's write of the samples failed.
C14_FramesCountAccepted ==
    (Called /\ LastCall.op \in {"Write", "WriteAt"} /\ ~LastCall.nilBuf) =>
        /\ frames = last.frames
                      + NewSampleBytes \div ((LastCall.nch * BitDepth) \div 8)
        /\ (\E i \in NewSent : sent[i].kind = "pcm" /\ ~sent[i].ok) =>
               frames = last.frames

\* C15: with a sink that never fails, once the data chunk is open, whichever
\* call opened it, the recorded payload start is the recorded placeholder
\* offset plus 4, and every sample write lands at or past the end of the
\* placeholder.
C15_PayloadStartRecorded ==
    fails = 0 =>
        /\ pcmChunkStarted => pcmChunkPos = pcmChunkSizePos + 4
        /\ \A i \in Reached({"pcm"}), j \in Placeholders :
              sent[i].at >= sent[j].at + 4

\* C18: without Metadata, a Close that returned no error on an encoder that
\* has written a sample buffer leaves the sink as long as it was, differing
\* from what it was only within offsets [4,8) and within the four bytes of
\* the size placeholder, and leaves the cursor at the end of the sink.
C18_ClosePatchesOnly ==
    (/\ ~Metadata /\ Called /\ LastCall.op = "Close" /\ LastCall.err = ""
     /\ \E i \in 1..(Len(hist) - 1) :
           /\ hist[i].op \in {"Write", "WriteAt"}
           /\ ~hist[i].nilBuf /\ hist[i].err = "") =>
        /\ Len(sink) = Len(last.sink)
        /\ cursor = Len(sink)
        /\ \A k \in 1..Len(sink) :
              sink[k] # last.sink[k] =>
                 \/ k \in 5..8
                 \/ \E j \in Placeholders : k \in (sent[j].at + 1)..(sent[j].at + 4)

\* C19: with a sink that never fails, after Write and WriteFrame calls that
\* returned no error and a Close that returned none, the data-chunk size
\* field holds the number of sample bytes the encoder sent to the sink.
C19_DataSizeIsPayload ==
    (WritesThenClose({"Write", "WriteFrame"}) /\ fails = 0) =>
        Field(pcmChunkSizePos) = LEBytes(BytesIn(sent, Len(sent), {"pcm"}), 4)

\* C20: while only Write, WriteFrame and AddLE have been called, WrittenBytes
\* is the number of bytes the sink holds, and the recorded placeholder offset
\* is the sink offset at which the placeholder was written.
C20_WrittenBytesIsSinkLength ==
    OnlyCalls({"Write", "WriteFrame", "AddLE"}) =>
        /\ WrittenBytes = Len(sink)
        /\ \A j \in Placeholders : pcmChunkSizePos = sent[j].at

RECURSIVE BytesOf(_, _)
BytesOf(fields, i) ==
    IF i > Len(fields) THEN <<>> ELSE fields[i].le \o BytesOf(fields, i + 1)

PrefixBytes ==
    BytesOf(HeaderFields \o <<ByteArray(DataFormatID), U32(42)>>, 1)

\* what the calls of threads 1..t carried and returned
RECURSIVE FramesGiven(_)
FramesGiven(t) ==
    IF t = 0 THEN 0 ELSE NumFrames(jobs[t].buf) + FramesGiven(t - 1)

RECURSIVE BytesReturned(_)
BytesReturned(t) == IF t = 0 THEN 0 ELSE ret[t].n + BytesReturned(t - 1)

OfKind(kind) == {i \in 1..Len(sent) : sent[i].kind = kind}

\* C16: with threads calling Write or WriteAt on a fresh encoder, each header
\* field, the 'data' tag and the placeholder are written once; when a sample
\* write is made they are the first writes the sink received, they fill
\* offsets [0,44) and no sample write lands below 44; when all calls have
\* returned the prefix is intact and the counters are the sums over the
\* calls.
C16_SetupOnceCountersSummed ==
    /\ Cardinality(OfKind("hdr")) <= HeaderLen
    /\ Cardinality(OfKind("data")) <= 1
    /\ Cardinality(OfKind("placeholder")) <= 1
    /\ \A i \in OfKind("pcm") :
          /\ i > HeaderLen + 2
          /\ \A j \in 1..(HeaderLen + 2) :
                sent[j].kind \in {"hdr", "data", "placeholder"}
          /\ sent[i].at >= Len(PrefixBytes)
          /\ SubSeq(sink, 1, Len(PrefixBytes)) = PrefixBytes
    /\ AllDone =>
          /\ SubSeq(sink, 1, Len(PrefixBytes)) = PrefixBytes
          /\ frames = FramesGiven(NThreads)
          /\ WrittenBytes = Len(PrefixBytes) + BytesReturned(NThreads)

\* a Write and a WriteAt have both returned, each having put its sample
\* bytes into the sink
C16_Witness ==
    /\ AllDone
    /\ \E a, b \in Threads : jobs[a].op = "Write" /\ jobs[b].op = "WriteAt"
    /\ frames = NThreads /\ Len(PrefixBytes) = 44
    /\ \E i, j \in OfKind("pcm") :
          i < j /\ sent[i].n > 0 /\ sent[j].n > 0

\* the one buffer written and the bytes the sink holds past the 44-byte prefix
OneBuffer == jobs[1].buf
Payload == SubSeq(sink, Len(PrefixBytes) + 1, Len(sink))
Written == Len(hist) >= 1 /\ hist[1].op = "Write"
WrittenAndClosed == Len(hist) = 2 /\ hist[2].op = "Close" /\ hist[2].err = ""

\* C12 as stated: on a 44100 Hz 16-bit mono encoder, one Write of 4 frames
\* and Close leave a sink of 44 bytes whose RIFF size field is 36.
C12_ExampleSizes ==
    (/\ SampleRate = 44100 /\ BitDepth = 16 /\ NumChans = 1
     /\ Written /\ WrittenAndClosed
     /\ OneBuffer.nch = 1 /\ NumFrames(OneBuffer) = 4) =>
        /\ Len(sink) = 44
        /\ Field(4) = LEBytes(36, 4)

\* C12 amended: on a 44100 Hz 16-bit mono encoder, one Write of 4 frames and
\* Close leave a sink of 52 bytes (44 of headers, 8 of samples) whose RIFF
\* size field is 44.
C12_ExampleSizesAmended ==
    (/\ SampleRate = 44100 /\ BitDepth = 16 /\ NumChans = 1
     /\ Written /\ WrittenAndClosed
     /\ OneBuffer.nch = 1 /\ NumFrames(OneBuffer) = 4) =>
        /\ Len(sink) = 52
        /\ Field(4) = LEBytes(44, 4)

C12_Witness ==
    /\ SampleRate = 44100 /\ BitDepth = 16 /\ NumChans = 1
    /\ Written /\ WrittenAndClosed
    /\ OneBuffer = ExampleBuffer
    /\ Payload = <<100, 0, 156, 255, 255, 127, 0, 128>>

\* the value of a little-endian byte group: unsigned for one byte, two's
\* complement otherwise
RECURSIVE Unsigned(_)
Unsigned(bs) ==
    IF bs = <<>> THEN 0 ELSE bs[1] + 256 * Unsigned(SubSeq(bs, 2, Len(bs)))

Decode(bs) ==
    LET w == Len(bs)
        top == IF w > 1 /\ bs[w] >= 128 THEN bs[w] - 256 ELSE bs[w]
    IN Unsigned(SubSeq(bs, 1, w - 1)) + Pow(256, w - 1) * top

\* v reduced modulo 2^b into the range of a b-bit integer, unsigned for 8
\* bits and signed otherwise; v is a 32-bit value already
Reduce(v, b) ==
    IF b = 32 THEN v
    ELSE LET r == v % Pow(2, b) IN
         IF b = 8 \/ r < Pow(2, b - 1) THEN r ELSE r - Pow(2, b)

\* the k-th group of BitDepth/8 bytes of the payload
Group(k) == SubSeq(Payload, (k - 1) * (BitDepth \div 8) + 1, k * (BitDepth \div 8))

\* C13: the payload of a written buffer of N frames by C channels is
\* N*C*BitDepth/8 bytes long, and its k-th group of BitDepth/8 bytes, in the
\* interleaved order of the buffer, decodes as little-endian to the k-th
\* sample reduced modulo 2^BitDepth; the 24-bit sample 1 is 01 00 00.
C13_EncodeRoundTrip ==
    Written =>
        /\ Len(Payload) = (NumFrames(OneBuffer) * OneBuffer.nch * BitDepth) \div 8
        /\ \A k \in 1..(NumFrames(OneBuffer) * OneBuffer.nch) :
              /\ Decode(Group(k)) = Reduce(OneBuffer.data[k], BitDepth)
              /\ (BitDepth = 24 /\ OneBuffer.data[k] = 1) => Group(k) = <<1, 0, 0>>

\* two frames of two channels at 24 bits, one sample out of range
C13_Witness ==
    /\ Written /\ BitDepth = 24
    /\ OneBuffer.nch = 2 /\ NumFrames(OneBuffer) = 2
    /\ OneBuffer.data = <<1, -8388609, 40000, -129>>
    /\ Payload = <<1, 0, 0, 255, 255, 127, 64, 156, 0, 127, 255, 255>>

====
